---- MODULE Spec2Model ----
(***************************************************************************)
(* Model of pkg/cache/cache.go: the two duplicate-suppressing caches       *)
(* (cache: confinement to the request handler; mutexCache: a lock) and     *)
(* the shutdown of the request handler, alone and inside the program of    *)
(* main (urlProducer, urlConsumer, handleUrl); and of pkg/reverb/reverb.go:*)
(* the echo server's serve loop and its shutdown on an interrupt.          *)
(*                                                                         *)
(* Goroutines are processes with a program counter.  Unbuffered channel    *)
(* operations are rendezvous: a send and its receive are one step.  close  *)
(* of a closed channel and send on a closed channel panic, and a panic     *)
(* terminates the whole program (no goroutine recovers).                   *)
(***************************************************************************)
EXTENDS Integers, Sequences, FiniteSets, TLC

\* ------------------------------------------------------------------ bounds
NumCallers == 3
MaxGets == 3
MaxStops == 2
MaxConns == 2
MaxInterrupts == 2
Repeat == 1

Callers == 1..NumCallers
Keys == {"a", "b"}
Nil == <<>>

NoKey == ""

\* The Func handed to the cache is the environment: for each key it returns
\* (a value or an error, as it likes) or never returns.
Behaviours == {"returns", "hangs"}

\* What an invocation that returns may return.
Kinds == {"ok", "err"}

\* What an invocation of a Func of behaviour b may return: anything if the
\* Func just "returns", the one kind of a deterministic Func, nothing if it
\* hangs.
Returns(b) == IF b = "returns" THEN Kinds ELSE {b} \cap Kinds

VARIABLES
    strategy,   \* which Cache is constructed: NewCache or NewMutexCache
    fn,         \* the Func: its behaviour per key
    calls,      \* instrumentation: number of invocations of fn per key
    produced,   \* instrumentation: the outcomes fn returned, per key, in order
    entries,    \* the heap of *entry values, in order of allocation
    store,      \* c.store: key -> index into entries, 0 for nil
    mu,         \* c.mu: 0 when unlocked, else the caller holding it
    stop,       \* the stop channel: TRUE once closed
    reqStream,  \* c.reqStream: TRUE once closed
    worker,     \* handleRequests: [pc, req]
    tasks,      \* the goroutines spawned by handleRequests that are running
    pc,         \* per caller: position in Get
    key,        \* per caller: argument of the current Get
    gets,       \* number of Get calls started so far, by all callers
    e,          \* per caller: local e of mutexCache.Get
    returned,   \* instrumentation: the responses Get returned, per key, in order
    shut,       \* main's shutdown: [pc, n, budget]: n calls made of budget
    panic,      \* "" or the message of the panic that ended the program
    reverb,     \* the reverb server: the goroutines and channels of main and serve
    pipeline    \* main of the cache program: urlProducer, urlConsumer, main's loop

vars == <<strategy, fn, calls, produced, entries, store, mu, stop, reqStream,
          worker, tasks, pc, key, gets, e, returned, shut, panic, reverb,
          pipeline>>

\* What no step of a cache changes: which cache it is, its Func, and the
\* other program.
envVars == <<strategy, fn, reverb, pipeline>>
confVars == <<stop, reqStream, worker, tasks, shut>>

\* ------------------------------------------------------------- data types

\* response{url, value, err}; start is set by handleUrl only and is left out.
Response(u, v, er) == [url |-> u, value |-> v, err |-> er]

\* Faulty variant of newEntry: the url of the response is not set.
newEntryNoUrl(k) == [res |-> [url |-> NoKey, value |-> Nil, err |-> Nil],
                     ready |-> FALSE, writes |-> 0]

\* newEntry: res.url = key, value and err zero, ready open.  writes is
\* instrumentation: the number of assignments to res.value, res.err.
newEntry(k) == [res |-> Response(k, Nil, Nil), ready |-> FALSE, writes |-> 0]

\* The outcome of the n-th return of fn for key k, a value or an error.
\* Outcomes of distinct invocations differ: fn is not assumed idempotent.
Outcome(k, n, kind) ==
    IF kind = "ok" THEN [value |-> <<k, n>>, err |-> Nil]
    ELSE [value |-> Nil, err |-> <<k, n>>]

\* e.res.value, e.res.err = f(key): the write of the outcome into the entry.
WriteRes(ent, out) ==
    [ent EXCEPT !.res.value = out.value, !.res.err = out.err,
                !.writes = @ + 1]

\* ------------------------------------------------------------------- init

NewStore == [k \in Keys |-> 0]

\* The reverb server is not part of the cache program.
NoReverb == [main |-> "none"]

\* The cache used on its own, by callers of Get that are not handleUrl.
NoPipeline == [main |-> "none"]

InitCache ==
    /\ reverb = NoReverb
    /\ pipeline = NoPipeline
    /\ strategy \in {"confinement", "mutex"}
    /\ calls = [k \in Keys |-> 0]
    /\ produced = [k \in Keys |-> <<>>]
    /\ entries = <<>>
    /\ store = NewStore
    /\ mu = 0
    /\ stop = FALSE
    /\ reqStream = FALSE
    /\ worker = [pc |-> IF strategy = "confinement" THEN "select" ELSE "none",
                 req |-> Nil]
    /\ tasks = {}
    /\ pc = [c \in Callers |-> "idle"]
    /\ key = [c \in Callers |-> NoKey]
    /\ gets = 0
    /\ e = [c \in Callers |-> 0]
    /\ returned = [k \in Keys |-> <<>>]
    /\ panic = ""

\* The Func may return a value or an error as it likes, or hang.
InitCommon == fn \in [Keys -> Behaviours] /\ InitCache

\* main calls shutdown once.
Init == InitCommon /\ shut = [pc |-> "idle", n |-> 0, budget |-> 1]

\* The stop trigger pulled up to MaxStops times.
InitStops ==
    /\ InitCommon
    /\ \E b \in 1..MaxStops : shut = [pc |-> "idle", n |-> 0, budget |-> b]

\* The Func is deterministic and returns: for each key always a value, or
\* always an error.
InitDet ==
    /\ fn \in [Keys -> Kinds]
    /\ InitCache
    /\ shut = [pc |-> "idle", n |-> 0, budget |-> 1]

\* No goroutine has panicked and main has not returned: the program is
\* running.
Running == panic = "" /\ pipeline.main # "returned"

\* ------------------------------------------------------- shared by both Gets

\* Faulty variant of IsMiss: the lookup result is ignored, every request is a miss.
AlwaysMiss(ent) == TRUE

\* Faulty variant of IsMiss: an entry that holds an error counts as a miss (a retry).
MissOrFailed(ent) == ent = 0 \/ entries[ent].res.err # Nil

\* e == nil after e := c.store[key].
IsMiss(ent) == ent = 0

\* Faulty variant of CloseReady: the ready channel is left open.
NoClose(ent) == ent

\* close(e.ready): the entry with its ready channel closed.
CloseReady(ent) == [ent EXCEPT !.ready = TRUE]

\* Faulty variant of ReadyObserved: the result is read without waiting for ready.
NoWait(i) == TRUE

\* <-e.ready completes: the ready channel of entry i is closed.
ReadyObserved(i) == entries[i].ready

\* Where the caller of Get goes on: handleUrl, if it is the caller, with
\* respStream <- response.
AfterGet == IF pipeline.main = "none" THEN "idle" ELSE "respond"

\* A Get of caller c returns r to its caller; its locals are gone.
Return(c, r) ==
    /\ returned' = [returned EXCEPT ![key[c]] = Append(@, r)]
    /\ pc' = [pc EXCEPT ![c] = AfterGet]
    /\ key' = [key EXCEPT ![c] = NoKey]
    /\ e' = [e EXCEPT ![c] = 0]

\* A caller starts Get(k).  cache.Get makes respStream and blocks sending the
\* request; mutexCache.Get goes for the lock.
Get(c, k) ==
    /\ Running
    /\ pc[c] = "idle"
    /\ gets < MaxGets
    /\ key' = [key EXCEPT ![c] = k]
    /\ gets' = gets + 1
    /\ pc' = [pc EXCEPT ![c] = IF strategy = "confinement" THEN "send" ELSE "lock"]
    /\ UNCHANGED <<envVars, confVars, calls, produced, entries, store, mu, e,
                   returned, panic>>

\* ------------------------------------------------------ confinement: worker

\* Faulty variant of AtSelect: e.call is run without go, so the worker is back at its
\* select only when the call it started is over.
AtSelectNoGo == worker.pc = "select" /\ \A t \in tasks : t.kind # "call"

\* The worker is blocked in its select.
AtSelect == worker.pc = "select"

\* case req, ok := <-c.reqStream: the rendezvous with caller c's send.  The
\* caller goes on to <-respStream.  (ok is always true here: only the worker
\* closes reqStream, and it returns right after.)
WorkerRecv(c) ==
    /\ Running
    /\ AtSelect
    /\ ~reqStream
    /\ pc[c] = "send"
    /\ worker' = [pc |-> "handle",
                  req |-> [url |-> key[c], response |-> c]]
    /\ pc' = [pc EXCEPT ![c] = "recv"]
    /\ UNCHANGED <<envVars, calls, produced, entries, store, mu, stop, reqStream,
                   tasks, key, gets, e, returned, shut, panic>>

\* go e.call(c.fn, req.url, req.response)
SpawnCall(req, i) ==
    [kind |-> "call", pc |-> "invoke", e |-> i, url |-> req.url,
     response |-> req.response, msg |-> Nil]

\* Faulty variant of SpawnDeliver: the hit path runs call as the miss path does.
SpawnCallAgain(req, i) ==
    [kind |-> "call", pc |-> "invoke", e |-> i, url |-> req.url,
     response |-> req.response, msg |-> Nil]

\* go e.deliver(req.response)
SpawnDeliver(req, i) ==
    [kind |-> "deliver", pc |-> "await", e |-> i, url |-> req.url,
     response |-> req.response, msg |-> Nil]

\* Faulty variant of WorkerHandle: the miss path lacks its continue and runs
\* into the hit path, so a miss spawns call and deliver.
WorkerHandleFallThrough ==
    /\ Running
    /\ worker.pc = "handle"
    /\ LET k == worker.req.url
           found == store[k]
       IN IF IsMiss(found)
          THEN /\ entries' = Append(entries, newEntry(k))
               /\ store' = [store EXCEPT ![k] = Len(entries) + 1]
               /\ tasks' = tasks \cup {SpawnCall(worker.req, Len(entries) + 1),
                                       SpawnDeliver(worker.req, Len(entries) + 1)}
          ELSE /\ tasks' = tasks \cup {SpawnDeliver(worker.req, found)}
               /\ UNCHANGED <<entries, store>>
    /\ worker' = [pc |-> "select", req |-> Nil]
    /\ UNCHANGED <<envVars, calls, produced, mu, stop, reqStream, pc, key, gets, e,
                   returned, shut, panic>>

\* The body of the request case: look the key up, on a miss create and store
\* the entry and spawn call, on a hit spawn deliver; then loop.
WorkerHandle ==
    /\ Running
    /\ worker.pc = "handle"
    /\ LET k == worker.req.url
           found == store[k]
       IN IF IsMiss(found)
          THEN /\ entries' = Append(entries, newEntry(k))
               /\ store' = [store EXCEPT ![k] = Len(entries) + 1]
               /\ tasks' = tasks \cup {SpawnCall(worker.req, Len(entries) + 1)}
          ELSE /\ tasks' = tasks \cup {SpawnDeliver(worker.req, found)}
               /\ UNCHANGED <<entries, store>>
    /\ worker' = [pc |-> "select", req |-> Nil]
    /\ UNCHANGED <<envVars, calls, produced, mu, stop, reqStream, pc, key, gets, e,
                   returned, shut, panic>>

\* Faulty variant of AfterStop: the return is missing, the worker loops on.
StopIgnored == [pc |-> "select", req |-> Nil]

\* The worker after the stop case: it has returned.
AfterStop == [pc |-> "exited", req |-> Nil]

\* Faulty variant of WorkerStop: the worker returns without closing reqStream.
WorkerStopNoClose ==
    /\ Running
    /\ worker.pc = "select"
    /\ stop
    /\ worker' = [pc |-> "exited", req |-> Nil]
    /\ UNCHANGED <<envVars, calls, produced, entries, store, mu, stop, reqStream,
                   tasks, pc, key, gets, e, returned, shut, panic>>

\* case <-stop: close(c.reqStream); return
WorkerStop ==
    /\ Running
    /\ AtSelect
    /\ stop
    /\ IF reqStream
       THEN /\ panic' = "close of closed channel: reqStream"
            /\ UNCHANGED <<reqStream, worker>>
       ELSE /\ reqStream' = TRUE
            /\ worker' = AfterStop
            /\ UNCHANGED panic
    /\ UNCHANGED <<envVars, calls, produced, entries, store, mu, stop, tasks, pc,
                   key, gets, e, returned, shut>>

\* ------------------------------------------------------- confinement: tasks

\* Task t goes on as f.
SetTask(t, f) == tasks' = (tasks \ {t}) \cup {f}

\* entry.call: f(key) is invoked.
CallInvoke(t) ==
    /\ Running
    /\ t.pc = "invoke"
    /\ calls' = [calls EXCEPT ![t.url] = @ + 1]
    /\ SetTask(t, [t EXCEPT !.pc = "fetching"])
    /\ UNCHANGED <<envVars, produced, entries, store, mu, stop, reqStream, worker,
                   pc, key, gets, e, returned, shut, panic>>

\* entry.call: f(key) returns and e.res.value, e.res.err are assigned.
CallReturn(t) ==
    /\ Running
    /\ t.pc = "fetching"
    /\ LET k == t.url
       IN \E kind \in Returns(fn[t.url]) :
              LET out == Outcome(k, Len(produced[k]) + 1, kind)
              IN /\ produced' = [produced EXCEPT ![k] = Append(@, out)]
                 /\ entries' = [entries EXCEPT ![t.e] = WriteRes(@, out)]
    /\ SetTask(t, [t EXCEPT !.pc = "close"])
    /\ UNCHANGED <<envVars, calls, store, mu, stop, reqStream, worker, pc, key,
                   gets, e, returned, shut, panic>>

\* entry.call: close(e.ready); the operand of respStream <- e.res is read.
CallClose(t) ==
    /\ Running
    /\ t.pc = "close"
    /\ LET i == t.e
       IN IF entries[i].ready
          THEN /\ panic' = "close of closed channel: ready"
               /\ UNCHANGED <<entries, tasks>>
          ELSE /\ entries' = [entries EXCEPT ![i] = CloseReady(@)]
               /\ SetTask(t, [t EXCEPT !.pc = "send",
                                              !.msg = entries[i].res])
               /\ UNCHANGED panic
    /\ UNCHANGED <<envVars, calls, produced, store, mu, stop, reqStream, worker, pc,
                   key, gets, e, returned, shut>>

\* Faulty variant of DeliverAwait: deliver reads e.res without the receive
\* on e.ready.
DeliverNoAwait(t) ==
    /\ Running
    /\ t.pc = "await"
    /\ SetTask(t, [t EXCEPT !.pc = "send", !.msg = entries[t.e].res])
    /\ UNCHANGED <<envVars, calls, produced, entries, store, mu, stop, reqStream,
                   worker, pc, key, gets, e, returned, shut, panic>>

\* entry.deliver: <-e.ready; the operand of respStream <- e.res is read.
DeliverAwait(t) ==
    /\ Running
    /\ t.pc = "await"
    /\ ReadyObserved(t.e)
    /\ SetTask(t, [t EXCEPT !.pc = "send", !.msg = entries[t.e].res])
    /\ UNCHANGED <<envVars, calls, produced, entries, store, mu, stop, reqStream,
                   worker, pc, key, gets, e, returned, shut, panic>>

\* Faulty variant of TaskSend: the task sends its response on the reply
\* channel of whichever Get is waiting, not on the one of its own request.
TaskSendAny(t) ==
    /\ Running
    /\ t.pc = "send"
    /\ \E c \in Callers : pc[c] = "recv" /\ Return(c, t.msg)
    /\ tasks' = tasks \ {t}
    /\ UNCHANGED <<envVars, calls, produced, entries, store, mu, stop, reqStream,
                   worker, gets, shut, panic>>

\* respStream <- e.res meets response := <-respStream of the Get that made
\* respStream, and Get returns the response; the task is over.  A reply
\* channel is named by its caller: a caller makes its next one only after it
\* received on this one.
TaskSend(t) ==
    /\ Running
    /\ t.pc = "send"
    /\ pc[t.response] = "recv"
    /\ Return(t.response, t.msg)
    /\ tasks' = tasks \ {t}
    /\ UNCHANGED <<envVars, calls, produced, entries, store, mu, stop, reqStream,
                   worker, gets, shut, panic>>

\* c.reqStream <- request{...} with reqStream closed: the send panics.
SendOnClosed(c) ==
    /\ Running
    /\ pc[c] = "send"
    /\ reqStream
    /\ panic' = "send on closed channel: reqStream"
    /\ UNCHANGED <<envVars, calls, produced, entries, store, mu, stop, reqStream,
                   worker, tasks, pc, key, gets, e, returned, shut>>

\* --------------------------------------------------------- main's shutdown

\* shutdown: close(stop).  main calls shutdown once; budget bounds the calls,
\* and n counts them.
CloseStop ==
    /\ Running
    /\ strategy = "confinement"
    /\ shut.pc = "idle"
    /\ shut.n < shut.budget
    /\ IF stop
       THEN /\ panic' = "close of closed channel: stop"
            /\ shut' = [shut EXCEPT !.n = @ + 1]
            /\ UNCHANGED stop
       ELSE /\ stop' = TRUE
            /\ shut' = [shut EXCEPT !.pc = "recv", !.n = @ + 1]
            /\ UNCHANGED panic
    /\ UNCHANGED <<envVars, calls, produced, entries, store, mu, reqStream, worker,
                   tasks, pc, key, gets, e, returned>>

\* shutdown: <-c.reqStream completes because reqStream is closed.
ShutdownRecv ==
    /\ Running
    /\ shut.pc = "recv"
    /\ reqStream
    /\ shut' = [shut EXCEPT !.pc = "idle"]
    /\ UNCHANGED <<envVars, calls, produced, entries, store, mu, stop, reqStream,
                   worker, tasks, pc, key, gets, e, returned, panic>>

\* shutdown: <-c.reqStream meets the send of caller c's Get; the request is
\* dropped, and the caller goes on to <-respStream.
ShutdownSteal(c) ==
    /\ Running
    /\ shut.pc = "recv"
    /\ ~reqStream
    /\ pc[c] = "send"
    /\ shut' = [shut EXCEPT !.pc = "idle"]
    /\ pc' = [pc EXCEPT ![c] = "recv"]
    /\ UNCHANGED <<envVars, calls, produced, entries, store, mu, stop, reqStream,
                   worker, tasks, key, gets, e, returned, panic>>

\* ----------------------------------------------------------- mutexCache.Get

\* Faulty variant of MLock: the caller goes on without acquiring the lock.
MLockFree(c) ==
    /\ Running
    /\ pc[c] = "lock"
    /\ mu' = c
    /\ pc' = [pc EXCEPT ![c] = "lookup"]
    /\ UNCHANGED <<envVars, confVars, calls, produced, entries, store, key, gets, e,
                   returned, panic>>

\* c.mu.Lock()
MLock(c) ==
    /\ Running
    /\ pc[c] = "lock"
    /\ mu = 0
    /\ mu' = c
    /\ pc' = [pc EXCEPT ![c] = "lookup"]
    /\ UNCHANGED <<envVars, confVars, calls, produced, entries, store, key, gets, e,
                   returned, panic>>

\* Faulty variant of MLookup: the lock is released right after the lookup,
\* before the insertion.
MLookupThenUnlock(c) ==
    /\ Running
    /\ pc[c] = "lookup"
    /\ e' = [e EXCEPT ![c] = store[key[c]]]
    /\ mu' = 0
    /\ pc' = [pc EXCEPT ![c] = IF IsMiss(store[key[c]]) THEN "insert" ELSE "hitUnlock"]
    /\ UNCHANGED <<envVars, confVars, calls, produced, entries, store, key, gets,
                   returned, panic>>

\* e := c.store[key]; if e == nil
MLookup(c) ==
    /\ Running
    /\ pc[c] = "lookup"
    /\ e' = [e EXCEPT ![c] = store[key[c]]]
    /\ pc' = [pc EXCEPT ![c] = IF IsMiss(store[key[c]]) THEN "insert" ELSE "hitUnlock"]
    /\ UNCHANGED <<envVars, confVars, calls, produced, entries, store, mu, key, gets,
                   returned, panic>>

\* Faulty variant of MInsert: the new entry is not put into the store.
MInsertNoStore(c) ==
    /\ Running
    /\ pc[c] = "insert"
    /\ entries' = Append(entries, newEntry(key[c]))
    /\ e' = [e EXCEPT ![c] = Len(entries) + 1]
    /\ pc' = [pc EXCEPT ![c] = "missUnlock"]
    /\ UNCHANGED <<envVars, confVars, calls, produced, store, mu, key, gets,
                   returned, panic>>

\* e = newEntry(key); c.store[key] = e
MInsert(c) ==
    /\ Running
    /\ pc[c] = "insert"
    /\ entries' = Append(entries, newEntry(key[c]))
    /\ e' = [e EXCEPT ![c] = Len(entries) + 1]
    /\ store' = [store EXCEPT ![key[c]] = Len(entries) + 1]
    /\ pc' = [pc EXCEPT ![c] = "missUnlock"]
    /\ UNCHANGED <<envVars, confVars, calls, produced, mu, key, gets, returned,
                   panic>>

\* c.mu.Unlock(): the lock after the call.  Unlock of an unlocked mutex is a
\* fatal error; every Unlock here follows the caller's own Lock.
Unlock(c) == 0

\* Faulty variant of MMissUnlock: the miss path goes to the fetch with the lock held.
MMissNoUnlock(c) ==
    /\ Running
    /\ pc[c] = "missUnlock"
    /\ pc' = [pc EXCEPT ![c] = "invoke"]
    /\ UNCHANGED <<envVars, confVars, calls, produced, entries, store, mu, key,
                   gets, e, returned, panic>>

\* c.mu.Unlock() on the miss path, before the fetch.
MMissUnlock(c) ==
    /\ Running
    /\ pc[c] = "missUnlock"
    /\ mu' = Unlock(c)
    /\ pc' = [pc EXCEPT ![c] = "invoke"]
    /\ UNCHANGED <<envVars, confVars, calls, produced, entries, store, key, gets, e,
                   returned, panic>>

\* c.fn(key) is invoked.
MInvoke(c) ==
    /\ Running
    /\ pc[c] = "invoke"
    /\ calls' = [calls EXCEPT ![key[c]] = @ + 1]
    /\ pc' = [pc EXCEPT ![c] = "fetching"]
    /\ UNCHANGED <<envVars, confVars, produced, entries, store, mu, key, gets, e,
                   returned, panic>>

\* c.fn(key) returns and e.res.value, e.res.err are assigned.
MFetchReturn(c) ==
    /\ Running
    /\ pc[c] = "fetching"
    /\ \E kind \in Returns(fn[key[c]]) :
           LET out == Outcome(key[c], Len(produced[key[c]]) + 1, kind)
           IN /\ produced' = [produced EXCEPT ![key[c]] = Append(@, out)]
              /\ entries' = [entries EXCEPT ![e[c]] = WriteRes(@, out)]
    /\ pc' = [pc EXCEPT ![c] = "close"]
    /\ UNCHANGED <<envVars, confVars, calls, store, mu, key, gets, e,
                   returned, panic>>

\* close(e.ready)
MClose(c) ==
    /\ Running
    /\ pc[c] = "close"
    /\ IF entries[e[c]].ready
       THEN /\ panic' = "close of closed channel: ready"
            /\ UNCHANGED <<entries, pc>>
       ELSE /\ entries' = [entries EXCEPT ![e[c]] = CloseReady(@)]
            /\ pc' = [pc EXCEPT ![c] = "missReturn"]
            /\ UNCHANGED panic
    /\ UNCHANGED <<envVars, confVars, calls, produced, store, mu, key, gets, e,
                   returned>>

\* c.mu.Unlock() on the hit path, before the wait.
MHitUnlock(c) ==
    /\ Running
    /\ pc[c] = "hitUnlock"
    /\ mu' = Unlock(c)
    /\ pc' = [pc EXCEPT ![c] = "await"]
    /\ UNCHANGED <<envVars, confVars, calls, produced, entries, store, key, gets, e,
                   returned, panic>>

\* <-e.ready
MAwait(c) ==
    /\ Running
    /\ pc[c] = "await"
    /\ ReadyObserved(e[c])
    /\ pc' = [pc EXCEPT ![c] = "hitReturn"]
    /\ UNCHANGED <<envVars, confVars, calls, produced, entries, store, mu, key, gets,
                   e, returned, panic>>

\* return e.res, on either path.
MReturn(c) ==
    /\ Running
    /\ pc[c] \in {"missReturn", "hitReturn"}
    /\ Return(c, entries[e[c]].res)
    /\ UNCHANGED <<envVars, confVars, calls, produced, entries, store, mu, gets,
                   panic>>

\* ------------------------------------------------------------ specification

Next ==
    \/ \E c \in Callers, k \in Keys : Get(c, k)
    \/ \E c \in Callers : WorkerRecv(c)
    \/ WorkerHandle
    \/ WorkerStop
    \/ \E t \in tasks : CallInvoke(t)
    \/ \E t \in tasks : CallReturn(t)
    \/ \E t \in tasks : CallClose(t)
    \/ \E t \in tasks : DeliverAwait(t)
    \/ \E t \in tasks : TaskSend(t)
    \/ \E c \in Callers : SendOnClosed(c)
    \/ CloseStop
    \/ ShutdownRecv
    \/ \E c \in Callers : ShutdownSteal(c)
    \/ \E c \in Callers : MLock(c)
    \/ \E c \in Callers : MLookup(c)
    \/ \E c \in Callers : MInsert(c)
    \/ \E c \in Callers : MMissUnlock(c)
    \/ \E c \in Callers : MInvoke(c)
    \/ \E c \in Callers : MFetchReturn(c)
    \/ \E c \in Callers : MClose(c)
    \/ \E c \in Callers : MHitUnlock(c)
    \/ \E c \in Callers : MAwait(c)
    \/ \E c \in Callers : MReturn(c)

Spec == Init /\ [][Next]_vars

\* Every step but a caller's decision to call Get and main's decision to shut
\* down is a step of a goroutine of the program.
ProgramStep ==
    \/ \E c \in Callers : WorkerRecv(c)
    \/ WorkerHandle
    \/ WorkerStop
    \/ \E t \in tasks : CallInvoke(t)
    \/ \E t \in tasks : CallReturn(t)
    \/ \E t \in tasks : CallClose(t)
    \/ \E t \in tasks : DeliverAwait(t)
    \/ \E t \in tasks : TaskSend(t)
    \/ \E c \in Callers : SendOnClosed(c)
    \/ ShutdownRecv
    \/ \E c \in Callers : ShutdownSteal(c)
    \/ \E c \in Callers : MLock(c)
    \/ \E c \in Callers : MLookup(c)
    \/ \E c \in Callers : MInsert(c)
    \/ \E c \in Callers : MMissUnlock(c)
    \/ \E c \in Callers : MInvoke(c)
    \/ \E c \in Callers : MFetchReturn(c)
    \/ \E c \in Callers : MClose(c)
    \/ \E c \in Callers : MHitUnlock(c)
    \/ \E c \in Callers : MAwait(c)
    \/ \E c \in Callers : MReturn(c)

\* The Go scheduler runs every goroutine that can take a step.  Every run of
\* the model is finite (each step spends a bounded resource), so weak fairness
\* of the program's steps together is what that amounts to: the program does
\* not stop while one of its goroutines can move.
FairSpec == Spec /\ WF_vars(ProgramStep)

\* The program with a stop trigger that may be pulled more than once.
SpecStops == InitStops /\ [][Next]_vars

\* The program with a deterministic Func.
SpecDet == InitDet /\ [][Next]_vars

\* ---------------------------------------------------------- main's pipeline
\* main of the cache program: urlProducer sends the urls, Repeat + 1 rounds
\* of them, on urlStream; urlConsumer starts a handleUrl goroutine per url,
\* which calls Get on the confinement cache and sends the response on
\* respStream; main ranges over respStream and then shuts down.  The callers
\* of Get are the handleUrl goroutines: caller c is idle while no goroutine
\* uses the slot.
\*
\* pipeline is a record: version is the source file of urlConsumer; producer,
\* consumer, main are positions; i, j are urlProducer's round and its index
\* into urls; url is urlConsumer's loop variable; urlStream, respStream are
\* TRUE once closed; wg is urlConsumer's WaitGroup counter; received counts
\* the responses main received; broke records that the reader of respStream
\* gave up before the stream was closed.

\* incomingUrls, cut to two urls.
Urls == <<"a", "b">>

Versions == {"cache.go", "part_001"}

NewPipeline(v) ==
    [version |-> v, main |-> "range", broke |-> FALSE, received |-> 0,
     producer |-> "check", i |-> 0, j |-> 1, urlStream |-> FALSE,
     consumer |-> "range", url |-> NoKey, wg |-> 0, respStream |-> FALSE]

\* main's var block: stop, NewCache, urlProducer, urlConsumer.  shutdown is
\* deferred: it has no call to make before main leaves its loop.
PipelineInit ==
    /\ reverb = NoReverb
    /\ \E v \in Versions : pipeline = NewPipeline(v)
    /\ strategy = "confinement"
    /\ fn \in [Keys -> Behaviours]
    /\ calls = [k \in Keys |-> 0]
    /\ produced = [k \in Keys |-> <<>>]
    /\ entries = <<>>
    /\ store = NewStore
    /\ mu = 0
    /\ stop = FALSE
    /\ reqStream = FALSE
    /\ worker = [pc |-> "select", req |-> Nil]
    /\ tasks = {}
    /\ pc = [c \in Callers |-> "idle"]
    /\ key = [c \in Callers |-> NoKey]
    /\ gets = 0
    /\ e = [c \in Callers |-> 0]
    /\ returned = [k \in Keys |-> <<>>]
    /\ shut = [pc |-> "idle", n |-> 0, budget |-> 0]
    /\ panic = ""

\* What a step of the pipeline alone leaves unchanged.
cacheState == <<strategy, fn, calls, produced, entries, store, mu, stop,
                reqStream, worker, tasks, e, returned, reverb>>

\* urlProducer: the head of the for loop and the select on stop.  After the
\* last round, or with stop closed, the goroutine returns; else the round
\* starts.
ProducerCheck ==
    /\ Running
    /\ pipeline.producer = "check"
    /\ pipeline' = [pipeline EXCEPT
           !.producer = IF pipeline.i = Repeat + 1 \/ stop THEN "close" ELSE "send",
           !.j = 1]
    /\ UNCHANGED <<cacheState, pc, key, gets, shut, panic>>

\* urlStream <- url in urlProducer meets the receive of urlConsumer's range
\* over urlStream.
UrlSend ==
    /\ Running
    /\ pipeline.producer = "send"
    /\ pipeline.consumer = "range"
    /\ pipeline' = [pipeline EXCEPT
           !.url = Urls[pipeline.j],
           !.consumer = "check",
           !.j = IF pipeline.j = Len(Urls) THEN 1 ELSE pipeline.j + 1,
           !.i = IF pipeline.j = Len(Urls) THEN pipeline.i + 1 ELSE pipeline.i,
           !.producer = IF pipeline.j = Len(Urls) THEN "check" ELSE "send"]
    /\ UNCHANGED <<cacheState, pc, key, gets, shut, panic>>

\* urlProducer's deferred close(urlStream).
ProducerClose ==
    /\ Running
    /\ pipeline.producer = "close"
    /\ pipeline' = [pipeline EXCEPT !.producer = "exited", !.urlStream = TRUE]
    /\ UNCHANGED <<cacheState, pc, key, gets, shut, panic>>

\* Where urlConsumer's return on stop leads: in cache.go to the deferred
\* function, which waits for the handleUrl goroutines and closes respStream;
\* in part_001 to the deferred close(respStream), the wg.Wait() at the end
\* of the function being skipped.
OnStop(v) == IF v = "cache.go" THEN "wait" ELSE "close"

\* urlConsumer: the select on stop in the loop body.
ConsumerCheck ==
    /\ Running
    /\ pipeline.consumer = "check"
    /\ pipeline' = [pipeline EXCEPT
           !.consumer = IF stop THEN OnStop(pipeline.version) ELSE "spawn",
           !.url = IF stop THEN NoKey ELSE pipeline.url]
    /\ UNCHANGED <<cacheState, pc, key, gets, shut, panic>>

\* The slots no handleUrl goroutine uses.
Free == {c \in Callers : pc[c] = "idle"}

\* urlConsumer: wg.Add(1) and go handleUrl(respStream, c, url), which calls
\* c.Get(url): cache.Get makes its reply channel and is about to send its
\* request.  At most NumCallers handleUrl goroutines run at once.
ConsumerSpawn ==
    /\ Running
    /\ pipeline.consumer = "spawn"
    /\ Free # {}
    /\ LET c == CHOOSE x \in Free : \A y \in Free : x <= y
       IN /\ pc' = [pc EXCEPT ![c] = "send"]
          /\ key' = [key EXCEPT ![c] = pipeline.url]
    /\ gets' = gets + 1
    /\ pipeline' = [pipeline EXCEPT !.consumer = "range", !.url = NoKey,
                                    !.wg = @ + 1]
    /\ UNCHANGED <<cacheState, shut, panic>>

\* urlConsumer: the range over urlStream ends, urlStream being closed.  Both
\* versions wait for the handleUrl goroutines next.
ConsumerEnd ==
    /\ Running
    /\ pipeline.consumer = "range"
    /\ pipeline.urlStream
    /\ pipeline' = [pipeline EXCEPT !.consumer = "wait"]
    /\ UNCHANGED <<cacheState, pc, key, gets, shut, panic>>

\* Faulty variant of ConsumerWait: wg.Wait() is missing.
ConsumerNoWait ==
    /\ Running
    /\ pipeline.consumer = "wait"
    /\ pipeline' = [pipeline EXCEPT !.consumer = "close"]
    /\ UNCHANGED <<cacheState, pc, key, gets, shut, panic>>

\* urlConsumer: wg.Wait() returns.
ConsumerWait ==
    /\ Running
    /\ pipeline.consumer = "wait"
    /\ pipeline.wg = 0
    /\ pipeline' = [pipeline EXCEPT !.consumer = "close"]
    /\ UNCHANGED <<cacheState, pc, key, gets, shut, panic>>

\* urlConsumer: close(respStream), deferred.
ConsumerClose ==
    /\ Running
    /\ pipeline.consumer = "close"
    /\ pipeline' = [pipeline EXCEPT !.consumer = "exited", !.respStream = TRUE]
    /\ UNCHANGED <<cacheState, pc, key, gets, shut, panic>>

\* respStream <- response in handleUrl meets the receive of main's range
\* over respStream.
Respond(c) ==
    /\ Running
    /\ pc[c] = "respond"
    /\ ~pipeline.respStream
    /\ pipeline.main = "range"
    /\ pc' = [pc EXCEPT ![c] = "done"]
    /\ pipeline' = [pipeline EXCEPT !.received = @ + 1]
    /\ UNCHANGED <<cacheState, key, gets, shut, panic>>

\* respStream <- response with respStream closed: the send panics.
RespondOnClosed(c) ==
    /\ Running
    /\ pc[c] = "respond"
    /\ pipeline.respStream
    /\ panic' = "send on closed channel: respStream"
    /\ UNCHANGED <<cacheState, pc, key, gets, shut, pipeline>>

\* The handleUrl goroutine's deferred wg.Done(); the goroutine is over.
HandlerExit(c) ==
    /\ Running
    /\ pc[c] = "done"
    /\ pc' = [pc EXCEPT ![c] = "idle"]
    /\ pipeline' = [pipeline EXCEPT !.wg = @ - 1]
    /\ UNCHANGED <<cacheState, key, gets, shut, panic>>

\* main: the range over respStream ends, respStream being closed; main
\* returns into the deferred shutdown, which has its one call to make.
MainRangeEnd ==
    /\ Running
    /\ pipeline.main = "range"
    /\ pipeline.respStream
    /\ pipeline' = [pipeline EXCEPT !.main = "shutdown"]
    /\ shut' = [shut EXCEPT !.budget = 1]
    /\ UNCHANGED <<cacheState, pc, key, gets, panic>>

\* The reader of respStream gives up before the stream is closed and shuts
\* down: the case the stop parameter of urlProducer and urlConsumer is for.
\* main as written never does; a run in which it happened has broke set.
Break ==
    /\ Running
    /\ pipeline.main = "range"
    /\ ~pipeline.respStream
    /\ pipeline' = [pipeline EXCEPT !.main = "shutdown", !.broke = TRUE]
    /\ shut' = [shut EXCEPT !.budget = 1]
    /\ UNCHANGED <<cacheState, pc, key, gets, panic>>

\* shutdown has returned and with it main: the process exits.
MainReturn ==
    /\ Running
    /\ pipeline.main = "shutdown"
    /\ shut.n = 1
    /\ shut.pc = "idle"
    /\ pipeline' = [pipeline EXCEPT !.main = "returned"]
    /\ UNCHANGED <<cacheState, pc, key, gets, shut, panic>>

\* Every step of a goroutine of the program, main's included.
PipelineStep ==
    \/ ProducerCheck
    \/ UrlSend
    \/ ProducerClose
    \/ ConsumerCheck
    \/ ConsumerSpawn
    \/ ConsumerEnd
    \/ ConsumerWait
    \/ ConsumerClose
    \/ \E c \in Callers : Respond(c)
    \/ \E c \in Callers : RespondOnClosed(c)
    \/ \E c \in Callers : HandlerExit(c)
    \/ MainRangeEnd
    \/ MainReturn
    \/ CloseStop
    \/ ProgramStep

PipelineNext ==
    \/ Break
    \/ ProducerCheck
    \/ UrlSend
    \/ ProducerClose
    \/ ConsumerCheck
    \/ ConsumerSpawn
    \/ ConsumerEnd
    \/ ConsumerWait
    \/ ConsumerClose
    \/ \E c \in Callers : Respond(c)
    \/ \E c \in Callers : RespondOnClosed(c)
    \/ \E c \in Callers : HandlerExit(c)
    \/ MainRangeEnd
    \/ MainReturn
    \/ CloseStop
    \/ ShutdownRecv
    \/ \E c \in Callers : ShutdownSteal(c)
    \/ \E c \in Callers : WorkerRecv(c)
    \/ WorkerHandle
    \/ WorkerStop
    \/ \E t \in tasks : CallInvoke(t)
    \/ \E t \in tasks : CallReturn(t)
    \/ \E t \in tasks : CallClose(t)
    \/ \E t \in tasks : DeliverAwait(t)
    \/ \E t \in tasks : TaskSend(t)
    \/ \E c \in Callers : SendOnClosed(c)

\* The program of main, with a reader of respStream that may give up early.
PipelineSpec == PipelineInit /\ [][PipelineNext]_vars

\* The scheduler runs every goroutine that can take a step.
PipelineFairSpec == PipelineSpec /\ WF_vars(PipelineStep)

\* ------------------------------------------------------------------ reverb
\* pkg/reverb/reverb.go.  reverb is a record: main, serve, handler,
\* heartbeat, waiter, watcher are the positions of the goroutines; shutdown,
\* done, mainDone are channels that are only ever closed (TRUE once closed);
\* interrupt is the length of the buffered channel of capacity 1; wg and
\* mainWg are the WaitGroup counters; listener is the listener's state.
\* signals, conns, handled count the interrupts delivered, the connections
\* accepted and the handleConn goroutines started.

\* All of the cache program but panic.
cacheVars == <<strategy, fn, calls, produced, entries, store, mu, stop, reqStream,
               worker, tasks, pc, key, gets, e, returned, shut>>

\* The cache is not part of the reverb program.
NoCache ==
    /\ strategy = "none"
    /\ fn = <<>>
    /\ calls = <<>>
    /\ produced = <<>>
    /\ entries = <<>>
    /\ store = <<>>
    /\ mu = 0
    /\ stop = FALSE
    /\ reqStream = FALSE
    /\ worker = [pc |-> "none", req |-> Nil]
    /\ tasks = {}
    /\ pc = <<>>
    /\ key = <<>>
    /\ gets = 0
    /\ e = <<>>
    /\ returned = <<>>
    /\ shut = [pc |-> "none", n |-> 0, budget |-> 0]

\* main up to the launch of the server goroutine and of the shutdown
\* watcher; budget is the number of interrupts the process will be sent.
NewReverb(budget) ==
    [main |-> "select", interrupt |-> 0, signals |-> 0, budget |-> budget,
     shutdown |-> FALSE, mainWg |-> 1, watcher |-> "wait", mainDone |-> FALSE,
     serve |-> "listen", listener |-> "none", wg |-> 0, done |-> FALSE,
     handler |-> "none", heartbeat |-> "none", waiter |-> "none",
     conns |-> 0, handled |-> 0]

\* The process is sent one interrupt.
ReverbInit ==
    /\ NoCache
    /\ pipeline = NoPipeline
    /\ panic = ""
    /\ reverb = NewReverb(1)

\* The process lives until main returns or a goroutine panics.
Alive == Running /\ reverb.main = "select"

\* An interrupt arrives.  signal.Notify sends without blocking: with the
\* buffer full the signal is dropped.
Signal ==
    /\ Alive
    /\ reverb.signals < reverb.budget
    /\ reverb' = [reverb EXCEPT !.signals = @ + 1, !.interrupt = 1]
    /\ UNCHANGED <<cacheVars, pipeline, panic>>

\* main: case <-interrupt: close(shutdown).
MainInterrupt ==
    /\ Alive
    /\ reverb.interrupt = 1
    /\ IF reverb.shutdown
       THEN /\ panic' = "close of closed channel: shutdown"
            /\ reverb' = [reverb EXCEPT !.interrupt = 0]
       ELSE /\ reverb' = [reverb EXCEPT !.interrupt = 0, !.shutdown = TRUE]
            /\ UNCHANGED panic
    /\ UNCHANGED <<cacheVars, pipeline>>

\* main: case <-done: return.
MainDone ==
    /\ Alive
    /\ reverb.mainDone
    /\ reverb' = [reverb EXCEPT !.main = "returned"]
    /\ UNCHANGED <<cacheVars, pipeline, panic>>

\* main's server goroutine: serve has returned, the deferred wg.Done().
ServerDone ==
    /\ Alive
    /\ reverb.serve = "returned"
    /\ reverb.mainWg = 1
    /\ reverb' = [reverb EXCEPT !.mainWg = 0]
    /\ UNCHANGED <<cacheVars, pipeline, panic>>

\* main's shutdown watcher: wg.Wait(); close(done).
WatcherClose ==
    /\ Alive
    /\ reverb.watcher = "wait"
    /\ reverb.mainWg = 0
    /\ reverb' = [reverb EXCEPT !.watcher = "exited", !.mainDone = TRUE]
    /\ UNCHANGED <<cacheVars, pipeline, panic>>

\* serve: net.Listen succeeds; the connection handler, the heartbeat and the
\* goroutine that waits for both are launched, and serve enters its loop.
ServeListen ==
    /\ Alive
    /\ reverb.serve = "listen"
    /\ reverb' = [reverb EXCEPT !.serve = "select", !.listener = "open",
                                !.wg = 2, !.handler = "select",
                                !.heartbeat = "select", !.waiter = "wait"]
    /\ UNCHANGED <<cacheVars, pipeline, panic>>

\* serve: net.Listen fails and serve returns the start-up error.
ServeListenErr ==
    /\ Alive
    /\ reverb.serve = "listen"
    /\ reverb' = [reverb EXCEPT !.serve = "returned"]
    /\ UNCHANGED <<cacheVars, pipeline, panic>>

\* serve's select: case <-done: return nil.
ServeDone ==
    /\ Alive
    /\ reverb.serve = "select"
    /\ reverb.done
    /\ reverb' = [reverb EXCEPT !.serve = "returned"]
    /\ UNCHANGED <<cacheVars, pipeline, panic>>

\* serve's select: default, taken when neither done nor stop is closed: on to
\* listener.Accept().  (The case <-stop only logs and loops.)
ServeDefault ==
    /\ Alive
    /\ reverb.serve = "select"
    /\ ~reverb.done
    /\ ~reverb.shutdown
    /\ reverb' = [reverb EXCEPT !.serve = "accept"]
    /\ UNCHANGED <<cacheVars, pipeline, panic>>

\* listener.Accept() returns a connection; next is connStream <- conn.
ServeAccept ==
    /\ Alive
    /\ reverb.serve = "accept"
    /\ reverb.listener = "open"
    /\ reverb.conns < MaxConns
    /\ reverb' = [reverb EXCEPT !.serve = "send", !.conns = @ + 1]
    /\ UNCHANGED <<cacheVars, pipeline, panic>>

\* listener.Accept() fails because the listener is closed: log, continue.
ServeAcceptErr ==
    /\ Alive
    /\ reverb.serve = "accept"
    /\ reverb.listener = "closed"
    /\ reverb' = [reverb EXCEPT !.serve = "select"]
    /\ UNCHANGED <<cacheVars, pipeline, panic>>

\* connStream <- conn in serve meets conn := <-stream in handleConnStream,
\* which starts handleConn and loops.
HandlerRecv ==
    /\ Alive
    /\ reverb.handler = "select"
    /\ reverb.serve = "send"
    /\ reverb' = [reverb EXCEPT !.serve = "select", !.handled = @ + 1]
    /\ UNCHANGED <<cacheVars, pipeline, panic>>

\* handleConnStream: case <-stop: return.
HandlerStop ==
    /\ Alive
    /\ reverb.handler = "select"
    /\ reverb.shutdown
    /\ reverb' = [reverb EXCEPT !.handler = "close"]
    /\ UNCHANGED <<cacheVars, pipeline, panic>>

\* The handler goroutine after handleConnStream: listener.Close().
HandlerClose ==
    /\ Alive
    /\ reverb.handler = "close"
    /\ reverb' = [reverb EXCEPT !.handler = "done", !.listener = "closed"]
    /\ UNCHANGED <<cacheVars, pipeline, panic>>

\* The handler goroutine's deferred wg.Done().
HandlerDone ==
    /\ Alive
    /\ reverb.handler = "done"
    /\ reverb' = [reverb EXCEPT !.handler = "exited", !.wg = @ - 1]
    /\ UNCHANGED <<cacheVars, pipeline, panic>>

\* heartbeat: case <-stop: return, and the deferred wg.Done().  (A pulse
\* changes nothing.)
HeartbeatStop ==
    /\ Alive
    /\ reverb.heartbeat = "select"
    /\ reverb.shutdown
    /\ reverb' = [reverb EXCEPT !.heartbeat = "exited", !.wg = @ - 1]
    /\ UNCHANGED <<cacheVars, pipeline, panic>>

\* serve's third goroutine: wg.Wait() returns, and the deferred close(done).
WaiterClose ==
    /\ Alive
    /\ reverb.waiter = "wait"
    /\ reverb.wg = 0
    /\ reverb' = [reverb EXCEPT !.waiter = "exited", !.done = TRUE]
    /\ UNCHANGED <<cacheVars, pipeline, panic>>

\* Every step of reverb but the arrival of an interrupt or of a connection.
ReverbStep ==
    \/ MainInterrupt
    \/ MainDone
    \/ ServerDone
    \/ WatcherClose
    \/ ServeListen
    \/ ServeListenErr
    \/ ServeDone
    \/ ServeDefault
    \/ ServeAcceptErr
    \/ HandlerRecv
    \/ HandlerStop
    \/ HandlerClose
    \/ HandlerDone
    \/ HeartbeatStop
    \/ WaiterClose

ReverbNext ==
    \/ Signal
    \/ ServeAccept
    \/ MainInterrupt
    \/ MainDone
    \/ ServerDone
    \/ WatcherClose
    \/ ServeListen
    \/ ServeListenErr
    \/ ServeDone
    \/ ServeDefault
    \/ ServeAcceptErr
    \/ HandlerRecv
    \/ HandlerStop
    \/ HandlerClose
    \/ HandlerDone
    \/ HeartbeatStop
    \/ WaiterClose

ReverbSpec == ReverbInit /\ [][ReverbNext]_vars

\* The scheduler runs every goroutine that can take a step.
ReverbFairSpec == ReverbSpec /\ WF_vars(ReverbStep)

\* The process is sent up to MaxInterrupts interrupts.
ReverbInitInterrupts ==
    /\ NoCache
    /\ pipeline = NoPipeline
    /\ panic = ""
    /\ \E b \in 1..MaxInterrupts : reverb = NewReverb(b)

\* reverb with an operator who may interrupt more than once.
ReverbInterruptsSpec == ReverbInitInterrupts /\ [][ReverbNext]_vars

\* ------------------------------------------------------------------ claims

\* The creator of the entry for k has not yet reached the call of fn.
InvokePending(k) ==
    \/ \E t \in tasks : t.kind = "call" /\ t.url = k /\ t.pc = "invoke"
    \/ \E c \in Callers : key[c] = k /\ pc[c] \in {"missUnlock", "invoke"}

\* C1 (Dedup): in both caches fn is invoked at most once per key, whatever the
\* interleaving of the Get calls; it has been invoked exactly once as soon as
\* the entry for the key exists and its creator has reached the call, and so
\* whenever a Get for the key has returned.
C1_Dedup ==
    \A k \in Keys :
        /\ calls[k] <= 1
        /\ calls[k] = (IF store[k] # 0 /\ ~InvokePending(k) THEN 1 ELSE 0)
        /\ (returned[k] # <<>> => calls[k] = 1)

\* Two Gets of the same key are in flight at once under the lock-based cache,
\* one fetching and one waiting for ready, and a third has returned.
C1_Witness ==
    /\ strategy = "mutex"
    /\ \E c1, c2 \in Callers :
          /\ key[c1] = "a" /\ pc[c1] = "close"
          /\ key[c2] = "a" /\ pc[c2] = "await"
    /\ calls["a"] = 1

\* C2 (Consistency): in both caches all Gets of a key that return, return the
\* same response (value and error), the fetching caller and every hit alike.
C2_Consistency ==
    \A k \in Keys :
        \A i, j \in 1..Len(returned[k]) : returned[k][i] = returned[k][j]

\* Three Gets of one key have returned under the confinement cache.
C2_Witness ==
    /\ strategy = "confinement"
    /\ \E k \in Keys : Len(returned[k]) >= 3

\* C3: a Get(k) returns the outcome of the one invocation of fn for k, with
\* url = k; a repeated Get(k) returns it again and fn is not invoked again.
C3_ReturnsFetched ==
    \A k \in Keys :
        \A i \in 1..Len(returned[k]) :
            /\ Len(produced[k]) = 1
            /\ calls[k] = 1
            /\ returned[k][i] =
                   Response(k, produced[k][1].value, produced[k][1].err)

\* Get(a) returned, then b was fetched and returned, and Get(a) returned again,
\* a value, with a single invocation for a.
C3_Witness ==
    /\ Len(returned["a"]) = 2
    /\ Len(returned["b"]) = 1
    /\ returned["a"][2].value # Nil
    /\ calls["a"] = 1
    /\ \A c \in Callers : pc[c] = "idle"

\* C4 (Error memoization): once fn returned an error for k, the entry of k
\* holds that error for good, every Get(k) that returns returns it, and fn is
\* not invoked for k again.
C4_ErrorMemoized ==
    \A k \in Keys :
        (produced[k] # <<>> /\ produced[k][1].err # Nil) =>
            /\ calls[k] = 1
            /\ Len(produced[k]) = 1
            /\ store[k] # 0
            /\ entries[store[k]].res.err = produced[k][1].err
            /\ \A i \in 1..Len(returned[k]) :
                   /\ returned[k][i].err = produced[k][1].err
                   /\ returned[k][i].value = Nil

\* fn failed for a key and three Gets of it returned.
C4_Witness ==
    \E k \in Keys :
        /\ produced[k] # <<>>
        /\ produced[k][1].err # Nil
        /\ Len(returned[k]) = 3

\* Caller c is in a Get whose fetch returns.
InGet(c) == pc[c] # "idle" /\ fn[key[c]] # "hangs"

\* C5 (Liveness of Get): under fair scheduling, as long as the worker is not
\* stopped, every Get of a key whose fetch returns eventually returns, in both
\* caches, whether it began to wait before or after the entry became ready.
C5_GetReturns ==
    \A c \in Callers : InGet(c) ~> (pc[c] = "idle" \/ stop)

\* Two hit callers of the same entry were both released by the one close of
\* its ready channel.
C5_Witness ==
    \E c1, c2 \in Callers :
        /\ c1 # c2
        /\ pc[c1] = "hitReturn" /\ pc[c2] = "hitReturn"
        /\ e[c1] = e[c2]

\* A fetch that never returns is in progress in the confinement cache.
HungCall == \E t \in tasks : t.pc = "fetching" /\ fn[t.url] = "hangs"

\* The worker, unless it has exited, is at its select or can take its next
\* step at once: it waits nowhere but in the select.
WorkerWaitsInSelectOnly ==
    (strategy = "confinement" /\ Running /\ worker.pc # "exited") =>
        (AtSelect \/ ENABLED WorkerHandle)

\* C6 (Confinement, cross-key non-blocking): the worker waits only in its
\* select, never on a fetch or a reply; so while a fetch for one key hangs, a
\* Get of a key whose fetch returns still returns (as long as the worker is
\* not stopped).
C6_ConfinementCrossKey ==
    /\ []WorkerWaitsInSelectOnly
    /\ \A c \in Callers :
          (strategy = "confinement" /\ HungCall /\ InGet(c))
              ~> (pc[c] = "idle" \/ stop)

\* fetch(a) hangs in its call task, and a Get(b) that began meanwhile returned.
C6_Witness ==
    /\ strategy = "confinement"
    /\ \E t \in tasks : t.pc = "fetching" /\ t.url = "a" /\ fn["a"] = "hangs"
    /\ returned["b"] # <<>>
    /\ \E c \in Callers : pc[c] = "recv" /\ key[c] = "a"

\* A caller holds the lock exactly from Lock to Unlock: during the lookup and
\* the insert, not while it fetches, waits for ready or returns.
LockHeldForStoreOnly ==
    \A c \in Callers :
        (mu = c) <=> (pc[c] \in {"lookup", "insert", "missUnlock", "hitUnlock"})

\* A fetch that never returns is in progress in the lock-based cache.
HungFetch == \E c \in Callers : pc[c] = "fetching" /\ fn[key[c]] = "hangs"

\* C7 (Mutex, cross-key non-blocking): the lock is held for the lookup and the
\* insert only and is released on both paths before the fetch and before the
\* wait for ready; so while a fetch for one key hangs, a Get of a key whose
\* fetch returns still returns.
C7_MutexCrossKey ==
    /\ []LockHeldForStoreOnly
    /\ \A c \in Callers :
          (strategy = "mutex" /\ HungFetch /\ InGet(c)) ~> (pc[c] = "idle")

\* fetch(a) hangs in one caller, the lock is free, and a Get(b) returned.
C7_Witness ==
    /\ strategy = "mutex"
    /\ \E c \in Callers : pc[c] = "fetching" /\ key[c] = "a" /\ fn["a"] = "hangs"
    /\ \E c \in Callers : pc[c] = "await" /\ key[c] = "a"
    /\ mu = 0
    /\ returned["b"] # <<>>

\* The worker received the request of caller c's Get, and nobody has answered
\* it yet.
Accepted(c) ==
    /\ pc[c] = "recv"
    /\ \/ worker.pc = "handle" /\ worker.req.response = c
       \/ \E t \in tasks : t.response = c

\* C8 (Shutdown, in-flight work): every request the worker accepted is
\* answered, also when the stop signal fires meanwhile: if its fetch returns,
\* its Get returns.  (It fails when the worker closes reqStream under a Get
\* that is blocked sending: that send panics and the program ends.)
C8_InFlightAnswered ==
    \A c \in Callers : (Accepted(c) /\ InGet(c)) ~> (pc[c] = "idle")

\* A step in which the worker neither receives a request, nor creates an
\* entry, nor spawns a task.
NoNewService ==
    /\ ~(worker.pc = "select" /\ worker'.pc = "handle")
    /\ Len(entries') = Len(entries)
    /\ \A t2 \in tasks' : \E t \in tasks : t.response = t2.response

\* C9 as claimed (Shutdown, no new service): from the moment the stop channel
\* is closed the worker receives no request, creates no entry and spawns no
\* task.
C9_NoServiceAfterStop ==
    [][(strategy = "confinement" /\ stop) => NoNewService]_vars

\* C9 as amended: once the worker has taken the stop case (it closed the
\* request channel) it has exited, and from then on it receives no request,
\* creates no entry and spawns no task.  Between the close of stop and that
\* moment it may still do all three.
C9_NoServiceAfterExit ==
    [][(strategy = "confinement" /\ reqStream) =>
          (worker.pc = "exited" /\ worker' = worker /\ NoNewService)]_vars

\* The worker served a request, then exited on stop, and a Get that came
\* later is blocked sending its request.
C9_Witness ==
    /\ worker.pc = "exited"
    /\ \E k \in Keys : returned[k] # <<>>
    /\ \E c \in Callers : pc[c] = "send"

\* The worker takes the stop case at most once: it closes the request channel
\* once, and has exited exactly when the channel is closed.
WorkerObservesStopOnce ==
    /\ panic # "close of closed channel: reqStream"
    /\ (reqStream <=> worker.pc = "exited")
    /\ (worker.pc = "exited" => stop)

\* C10 as claimed: the stop trigger is idempotent, a second trigger changes
\* nothing, and the worker observes the stop exactly once.
C10_StopIdempotent ==
    /\ WorkerObservesStopOnce
    /\ panic # "close of closed channel: stop"

\* C10 as amended: the first trigger is observed exactly once by the worker
\* (it closes the request channel once and exits); the trigger is not
\* idempotent: a second close(stop) panics and ends the program.
C10_StopOnce ==
    /\ WorkerObservesStopOnce
    /\ (shut.n >= 2 <=> panic = "close of closed channel: stop")

\* The worker exited on the first trigger, shutdown returned, and the trigger
\* was pulled a second time.
C10_Witness ==
    /\ worker.pc = "exited"
    /\ shut.n = 2
    /\ ~Running

\* The request of caller c's Get has not reached the worker: the Get is
\* blocked sending it, or somebody else than the worker received it.
Unreceived(c) ==
    \/ pc[c] = "send"
    \/ pc[c] = "recv" /\ ~Accepted(c)

\* C11 (Get racing with shutdown): a Get whose request the worker has not
\* received when the worker exits never returns a response: from the exit on
\* it stays blocked, unless its send on the closed request channel panics.
C11_UnreceivedNeverReturns ==
    [][\A c \in Callers :
          (strategy = "confinement" /\ worker.pc = "exited" /\ Unreceived(c))
             => Unreceived(c)']_vars

\* The worker has exited, a Get that it had not received is still blocked
\* sending, and a send on the closed request channel has panicked.
C11_Witness ==
    /\ worker.pc = "exited"
    /\ panic = "send on closed channel: reqStream"
    /\ \E c \in Callers : pc[c] = "send"
    /\ \E c \in Callers : pc[c] = "recv" /\ ~Accepted(c)

\* What Get(k) owes its caller when the Func is deterministic: the url and
\* what the Func returns for k.  Neither the strategy nor the interleaving
\* occurs in it.
Fetched(k) ==
    LET out == Outcome(k, 1, fn[k])
    IN Response(k, out.value, out.err)

\* No goroutine of the program can take a step.
Quiescent == ~ENABLED ProgramStep

\* C12 (the strategies are interchangeable): with a deterministic Func and
\* no shutdown, what the callers see depends on the Get calls alone, so it is
\* the same under both strategies: every Get(k) that returned got Fetched(k),
\* fn is invoked at most once per key and only for a requested key, and when
\* the program has come to rest every Get has returned and fn was invoked
\* exactly for the keys that were requested.
C12_Interchangeable ==
    ~stop =>
       /\ \A k \in Keys :
             /\ \A i \in 1..Len(returned[k]) : returned[k][i] = Fetched(k)
             /\ calls[k] <= 1
             /\ calls[k] = 1 => \/ returned[k] # <<>>
                                \/ \E c \in Callers : key[c] = k
       /\ Quiescent =>
             /\ \A c \in Callers : pc[c] = "idle"
             /\ \A k \in Keys : calls[k] = 1 <=> returned[k] # <<>>

\* The program has come to rest after three Gets over both keys, one
\* key requested twice.
C12_Witness ==
    /\ ~stop
    /\ Quiescent
    /\ gets = MaxGets
    /\ \E k \in Keys : Len(returned[k]) = 2
    /\ \A k \in Keys : returned[k] # <<>>

\* The entries ever created for key k.
EntriesOf(k) == {i \in 1..Len(entries) : entries[i].res.url = k}

\* At most one entry was ever created for a key, and it is the one the store
\* maps the key to.
OneEntryPerKey ==
    \A k \in Keys :
        /\ Cardinality(EntriesOf(k)) <= 1
        /\ EntriesOf(k) = (IF store[k] = 0 THEN {} ELSE {store[k]})

\* A step leaves every mapping of the store in place and drops no entry.
StoreKept ==
    /\ \A k \in Keys : store[k] # 0 => store'[k] = store[k]
    /\ Len(entries') >= Len(entries)
    /\ \A i \in 1..Len(entries) : entries'[i].res.url = entries[i].res.url

\* C14 (Store): in both caches a key has at most one entry for the lifetime
\* of the cache: no two tasks create an entry for the same key (lookup and
\* insertion are one atomic step for everybody else), and a mapping, once in
\* the store, is neither removed nor replaced.
C14_StoreInsertOnly == []OneEntryPerKey /\ [][StoreKept]_vars

\* Three Gets raced for one key under the lock-based cache: one created the
\* entry, and the other two found it.
C14_Witness ==
    /\ strategy = "mutex"
    /\ \E k \in Keys :
          /\ store[k] # 0
          /\ Cardinality({c \in Callers : key[c] = k /\ e[c] = store[k]}) = 3

\* The tasks that still have close(e.ready) for entry i ahead of them: the
\* call task spawned when the worker created i, or the Get that created i
\* under the lock and is on its miss path.
TaskClosers(i) ==
    {t \in tasks : t.kind = "call" /\ t.e = i /\ t.pc \in {"invoke", "fetching", "close"}}

GetClosers(i) ==
    {c \in Callers : e[c] = i /\ pc[c] \in {"missUnlock", "invoke", "fetching", "close"}}

Closers(i) == Cardinality(TaskClosers(i)) + Cardinality(GetClosers(i))

\* Every pending entry has exactly one task that will close its ready channel,
\* the one its creation started; a ready entry has none; no close hit a
\* closed channel.
OneCloser ==
    /\ panic # "close of closed channel: ready"
    /\ \A i \in 1..Len(entries) :
          Closers(i) = (IF entries[i].ready THEN 0 ELSE 1)

\* A ready entry stays ready, and the step that makes an entry ready is the
\* close of its one closer.
ReadyOnce ==
    \A i \in 1..Len(entries) :
        /\ entries[i].ready => entries'[i].ready
        /\ (~entries[i].ready /\ entries'[i].ready) =>
              \/ \E t \in TaskClosers(i) : t.pc = "close" /\ t \notin tasks'
              \/ \E c \in GetClosers(i) : pc[c] = "close" /\ pc'[c] = "missReturn"

\* C15: the ready signal of an entry goes from pending to ready at most once
\* and never back: close(e.ready) is executed at most once per entry, and
\* only by the task that the creation of the entry set to fetch (the spawned
\* call task under confinement, the missing caller under the lock).
C15_ReadyFiresOnce == []OneCloser /\ [][ReadyOnce]_vars

\* Under confinement an entry is ready, its call task has handed it over, and
\* a deliver task that waited for ready holds the response to send.
C15_Witness ==
    /\ strategy = "confinement"
    /\ Running
    /\ \E t \in tasks :
          /\ t.kind = "deliver" /\ t.pc = "send"
          /\ entries[t.e].ready
          /\ Closers(t.e) = 0

\* The tasks that have read e.res of entry i, or are past the point after
\* which they read it without further synchronization.
HasRead(i) ==
    \/ \E t \in tasks : t.e = i /\ t.pc = "send"
    \/ \E c \in Callers : e[c] = i /\ pc[c] \in {"missReturn", "hitReturn"}

\* value and err of an entry are assigned at most once, the assignment is in
\* place when ready is closed, whoever reads them does so with ready closed
\* and reads what was assigned, and a Get returns only what a completed fetch
\* produced.
WrittenBeforeRead ==
    /\ \A i \in 1..Len(entries) :
          /\ entries[i].writes <= 1
          /\ entries[i].ready => entries[i].writes = 1
          /\ HasRead(i) => entries[i].ready
    /\ \A t \in tasks : t.pc = "send" => t.msg = entries[t.e].res
    /\ \A k \in Keys : returned[k] # <<>> => produced[k] # <<>>

\* The assignment is made by the entry's one closer, before it closes ready,
\* and an entry that is ready is not assigned.
WrittenByCloser ==
    \A i \in 1..Len(entries) :
        entries'[i].res # entries[i].res =>
            /\ ~entries[i].ready /\ ~entries'[i].ready
            /\ entries[i].writes = 0 /\ entries'[i].writes = 1
            /\ Closers(i) = 1 /\ Closers(i)' = 1
            /\ \/ \E t \in TaskClosers(i) : t.pc = "fetching"
               \/ \E c \in GetClosers(i) : pc[c] = "fetching"

\* C16: value and err of an entry are written exactly once, by one task,
\* strictly before ready fires, and no task reads them before it observed
\* ready (the writer after its own close): no Get(k) returns before fetch(k)
\* has completed, and no read is concurrent with the write.
C16_WriteOnceBeforeReady == []WrittenBeforeRead /\ [][WrittenByCloser]_vars

\* Under the lock-based cache the fetching Get has written and closed, and a
\* Get that waited on ready is about to read the entry.
C16_Witness ==
    /\ strategy = "mutex"
    /\ \E c1, c2 \in Callers :
          /\ e[c1] = e[c2]
          /\ pc[c1] = "missReturn"
          /\ pc[c2] = "hitReturn"
          /\ entries[e[c1]].writes = 1

\* The Gets that are between c.mu.Lock() and c.mu.Unlock().
InCritical == {c \in Callers : pc[c] \in {"lookup", "insert", "missUnlock", "hitUnlock"}}

\* At most one Get is between Lock and Unlock, and it is the holder of mu;
\* under confinement no Get ever is, and mu is never taken.
OneHolder ==
    /\ Cardinality(InCritical) <= 1
    /\ \A c \in Callers : c \in InCritical <=> mu = c
    /\ strategy = "confinement" => mu = 0

\* A step that writes the store, or in which a Get or a task obtains an entry
\* from the store, is a step of the worker under confinement and a step of
\* the holder of the lock under the lock-based cache.
StoreOwned ==
    /\ store' # store =>
          IF strategy = "confinement"
          THEN worker.pc = "handle" /\ worker'.pc = "select"
          ELSE \E c \in Callers : mu = c /\ pc[c] = "insert" /\ mu' = c
    /\ \A c \in Callers :
          (e'[c] # e[c] /\ e'[c] # 0) =>
              /\ strategy = "mutex"
              /\ mu = c /\ mu' = c
              /\ pc[c] \in {"lookup", "insert"}
    /\ tasks' \ tasks # {} =>
          \/ worker.pc = "handle" /\ worker'.pc = "select"
          \/ /\ store' = store
             /\ \E t \in tasks : \E u \in tasks' :
                   /\ tasks' = (tasks \ {t}) \cup {u}
                   /\ u.e = t.e

\* C17 (Store ownership): under confinement only the worker reads and writes
\* the store; under the lock-based cache every read and write of the store
\* is made by the task that holds the lock, and at most one task holds it.
C17_StoreOwned == []OneHolder /\ [][StoreOwned]_vars

\* Under the lock-based cache one Get is inserting with the lock held while
\* two other Gets wait for the lock.
C17_Witness ==
    /\ \E c \in Callers : pc[c] = "insert" /\ mu = c
    /\ Cardinality({c \in Callers : pc[c] = "lock"}) = 2

\* The tasks that hold the reply channel of caller c's Get.
TasksFor(c) == {t \in tasks : t.response = c}

\* The number of parties that owe the Get of caller c a response: the worker
\* while it handles the request, and the tasks spawned for it.
Owed(c) ==
    Cardinality(TasksFor(c))
       + (IF worker.pc = "handle" /\ worker.req.response = c THEN 1 ELSE 0)

\* A Get is owed at most one response, and only while it waits for it.
OwedOnce ==
    \A c \in Callers :
        /\ Owed(c) <= 1
        /\ Owed(c) = 1 => pc[c] = "recv"

\* Accepting a request makes one response owed; handling it hands the debt to
\* exactly one new task, call on a miss and deliver on a hit; the debt ends
\* only by that task's one send, which the Get receives and returns.
OneReplyPerRequest ==
    \A c \in Callers :
        /\ (Owed(c) = 0 /\ Owed(c)' = 1) =>
              /\ pc[c] = "send" /\ pc'[c] = "recv"
              /\ worker'.pc = "handle" /\ worker'.req = [url |-> key[c], response |-> c]
        /\ (worker.pc = "handle" /\ worker.req.response = c /\ worker' # worker) =>
              \E t \in tasks' \ tasks :
                 /\ tasks' = tasks \cup {t}
                 /\ t.response = c /\ t.url = worker.req.url
                 /\ t.kind = (IF store[t.url] = 0 THEN "call" ELSE "deliver")
        /\ (Owed(c) = 1 /\ Owed(c)' = 0) =>
              /\ \E t \in TasksFor(c) : t.pc = "send" /\ tasks' = tasks \ {t}
              /\ pc[c] = "recv" /\ pc'[c] = "idle"
              /\ Len(returned'[key[c]]) = Len(returned[key[c]]) + 1
        /\ (strategy = "confinement" /\ pc[c] = "recv" /\ pc'[c] # "recv") =>
              Owed(c) = 1 /\ Owed(c)' = 0

\* C19: under confinement every request the worker accepts gets one response
\* on its reply channel and no more: one task is spawned per accepted request
\* (call on a miss, deliver on a hit), that task sends once, and no accepted
\* request is dropped or answered twice.
C19_OneResponse == []OwedOnce /\ [][OneReplyPerRequest]_vars

\* A miss and a hit of one key are both owed their response, by a call task
\* and by a deliver task, and an earlier request has been answered.
C19_Witness ==
    /\ \E t1, t2 \in tasks :
          /\ t1.kind = "call" /\ t2.kind = "deliver"
          /\ t1.url = t2.url /\ t1.response # t2.response
          /\ Owed(t1.response) = 1 /\ Owed(t2.response) = 1
    /\ \E k \in Keys : returned[k] # <<>>

\* C13 (reverb shutdown): once stop is closed, serve eventually returns, in
\* every interleaving of the arrival of connections and of the stop.  (It
\* fails: serve, having accepted a connection, blocks in connStream <- conn
\* when the connection handler takes its stop case instead of the
\* connection.)
C13_ServeReturns == reverb.shutdown ~> (reverb.serve = "returned")

\* The handleUrl goroutines that urlConsumer launched and that are not over.
Handling == {c \in Callers : pc[c] # "idle"}

\* C18: urlConsumer closes respStream only after every handleUrl goroutine it
\* launched has sent its response, on the normal path and on the stop path:
\* with respStream closed no such goroutine is left, main has received a
\* response for every url a goroutine was launched for, and no goroutine has
\* sent on the closed respStream.  (It fails for urlConsumer of part_001: on
\* the stop path its deferred close(respStream) runs without wg.Wait().)
C18_CloseAfterResponses ==
    /\ panic # "send on closed channel: respStream"
    /\ pipeline.respStream =>
          /\ Handling = {}
          /\ pipeline.wg = 0
          /\ pipeline.received = gets

\* main as written: it left its loop because respStream was closed.
AsWritten == ~pipeline.broke

\* When main as written closes stop, every handleUrl goroutine is over, and
\* so is every Get and every task of the cache; nothing has panicked.
NoGetAtShutdown ==
    (AsWritten /\ stop) =>
        /\ pipeline.respStream
        /\ Handling = {}
        /\ tasks = {}
        /\ worker.pc \in {"select", "exited"}
        /\ panic = ""
        /\ pipeline.received = gets

\* The receive <-c.reqStream of shutdown completes on the closed channel and
\* takes no caller's request.
ReceiveByClose ==
    (AsWritten /\ shut.pc = "recv" /\ shut'.pc # "recv") =>
        /\ reqStream
        /\ worker.pc = "exited"
        /\ pc' = pc

\* C20: in main of the cache program no Get is in flight when shutdown
\* starts, respStream being closed only after all handleUrl goroutines
\* returned; main's receive on the request channel completes because the
\* worker closed the channel, never by taking a caller's request; and
\* shutdown terminates.
C20_CleanShutdown ==
    /\ []NoGetAtShutdown
    /\ [][ReceiveByClose]_vars
    /\ (AsWritten /\ stop) ~> (pipeline.main = "returned")

\* main as written has received a response for each of the four urls and has
\* returned from shutdown.
C20_Witness ==
    /\ AsWritten
    /\ pipeline.main = "returned"
    /\ pipeline.received = Len(Urls) * (Repeat + 1)
    /\ reqStream

\* urlProducer is blocked in urlStream <- url for good: urlConsumer has left
\* its range over urlStream on the stop path and will not receive again.
ProducerBlocked ==
    /\ stop
    /\ pipeline.producer = "send"
    /\ pipeline.consumer \in {"wait", "close", "exited"}

\* C21: after stop is closed urlProducer eventually returns and closes
\* urlStream, also when urlConsumer has observed stop and stopped reading in
\* the middle of a round: the producer is never left in a send that nobody
\* will receive, and the close of stop leads to its exit.  (It fails: the
\* send inside a round does not select on stop.)
C21_ProducerTerminates ==
    /\ []~ProducerBlocked
    /\ stop ~> (pipeline.producer = "exited" /\ pipeline.urlStream)

\* C22: main of reverb closes the shutdown channel at most once, however
\* many interrupts arrive: an interrupt that arrives after the shutdown has
\* started and before the server reports done does not make main close it
\* again.  (It fails: every interrupt main receives runs close(shutdown),
\* and the second close panics.)
C22_ShutdownClosedOnce == panic # "close of closed channel: shutdown"

====
